---- MODULE Spec2Model ----
(***************************************************************************)
(* Model of the countdown clock application in src/src/main.rs: the        *)
(* CountdownTask accounting (elapsed / remaining / is_finished), the       *)
(* duration parser, persistence of the history, and ClockApp::update, the  *)
(* per-frame handler that carries every user command.                      *)
(*                                                                         *)
(* Time: Instant and DateTime<Local> values are whole ticks of one second  *)
(* read from the variable now.  A Duration measured on the clock           *)
(* (elapsed_before_pause, elapsed()) is an integer number of seconds; a    *)
(* Duration that comes from parse_duration (the field duration, and what   *)
(* remaining() derives from it) is a u64 number of seconds kept in limbs,  *)
(* least significant first, since it can be any value below 2^64.          *)
(* Text: a string is a sequence of one-character strings.                  *)
(* Option<T>: None is the empty sequence, Some(x) is <<x>>.                *)
(***************************************************************************)
EXTENDS Integers, Sequences, FiniteSets, Bags, TLC

\* ------------------------------------------------------------------ bounds
\* The clock stops advancing at MaxTime.
MaxTime == 3
\* At most MaxTasks tasks are created, over all runs of the process.
MaxTasks == 1

\* ------------------------------------------------------------------ Option
None == <<>>
Some(x) == <<x>>
IsSome(o) == o # <<>>
Unwrap(o) == o[1]

\* ------------------------------------------------------- u64 arithmetic
\* A natural number is kept as NLimbs limbs of LimbBits bits, least
\* significant first, so that 64-bit overflow is computed and not assumed
\* away.  The low U64Limbs limbs are the u64 value.
LimbBits == 16
Base == 2 ^ LimbBits
U64Limbs == 64 \div LimbBits
NLimbs == 2 * U64Limbs

\* Carry propagation from limb i on: x holds unreduced limb values
RECURSIVE Ripple(_, _, _)
Ripple(x, i, carry) ==
    IF i > NLimbs THEN <<>>
    ELSE <<(x[i] + carry) % Base>> \o Ripple(x, i + 1, (x[i] + carry) \div Base)

Reduce(x) == Ripple(x, 1, 0)

BigZero == Reduce([i \in 1..NLimbs |-> 0])

\* a * m + d for small m and d
BigMulAdd(a, m, d) ==
    Reduce([i \in 1..NLimbs |-> a[i] * m + (IF i = 1 THEN d ELSE 0)])

BigAdd(a, b) == Reduce([i \in 1..NLimbs |-> a[i] + b[i]])

FitsU64(x) == \A i \in (U64Limbs + 1)..NLimbs : x[i] = 0

\* the value modulo 2^64: what a wrapping u64 operation keeps
WrapU64(x) == Reduce([i \in 1..NLimbs |-> IF i <= U64Limbs THEN x[i] ELSE 0])

\* the values that are also integers of the model: below 2^31
FitsInt(x) == (\A i \in 3..NLimbs : x[i] = 0) /\ x[2] < Base \div 2
ToInt(x) == x[1] + x[2] * Base

\* the limbs of an integer k of the model, 0 <= k < 2^31
FromInt(k) == Reduce([i \in 1..NLimbs |-> IF i = 1 THEN k ELSE 0])

\* a <= k, for limbs a and an integer k of the model: the lowest limb is
\* compared first, a being at least its lowest limb
BigLeqInt(a, k) == a[1] <= k /\ FitsInt(a) /\ ToInt(a) <= k

\* Borrow propagation from limb i on: x holds limb differences
RECURSIVE RippleBorrow(_, _, _)
RippleBorrow(x, i, borrow) ==
    IF i > NLimbs THEN <<>>
    ELSE <<(x[i] - borrow + Base) % Base>>
           \o RippleBorrow(x, i + 1, IF x[i] - borrow < 0 THEN 1 ELSE 0)

\* a - b, for a >= b
BigSub(a, b) == RippleBorrow([i \in 1..NLimbs |-> a[i] - b[i]], 1, 0)

\* -------------------------------------------------------------------- text
Digits == <<"0", "1", "2", "3", "4", "5", "6", "7", "8", "9">>
IsDigit(c) == \E d \in 1..10 : Digits[d] = c
DigitValue(c) == (CHOOSE d \in 1..10 : Digits[d] = c) - 1

\* str::trim, for the one whitespace character the model's texts use
RECURSIVE TrimStart(_)
TrimStart(s) ==
    IF s # <<>> /\ Head(s) = " " THEN TrimStart(Tail(s)) ELSE s

RECURSIVE TrimEnd(_)
TrimEnd(s) ==
    IF s # <<>> /\ s[Len(s)] = " "
    THEN TrimEnd(SubSeq(s, 1, Len(s) - 1))
    ELSE s

Trim(s) == TrimEnd(TrimStart(s))

\* str::split(':'): the empty string splits into one empty part
RECURSIVE Split(_)
Split(s) ==
    IF s = <<>> THEN << <<>> >>
    ELSE LET rest == Split(Tail(s))
         IN  IF Head(s) = ":"
             THEN << <<>> >> \o rest
             ELSE << <<Head(s)>> \o Head(rest) >> \o Tail(rest)

\* str::parse::<u64>: an optional "+", then one or more decimal digits,
\* accumulated with checked_mul(10) and checked_add(digit).
\* The result is None or Some(limbs).
RECURSIVE AccumulateU64(_, _)
AccumulateU64(acc, ds) ==
    IF ds = <<>> THEN Some(acc)
    ELSE IF ~IsDigit(Head(ds)) THEN None
    ELSE LET next == BigMulAdd(acc, 10, DigitValue(Head(ds)))
         IN  IF FitsU64(next) THEN AccumulateU64(next, Tail(ds)) ELSE None

ParseU64(f) ==
    IF f = <<>> THEN None
    ELSE IF Len(f) = 1 /\ Head(f) \in {"+", "-"} THEN None
    ELSE IF Head(f) = "+" THEN AccumulateU64(BigZero, Tail(f))
    ELSE AccumulateU64(BigZero, f)

\* ClockApp::parse_duration.  The result is a record: ok is FALSE for None;
\* secs is the value wrapped to 64 bits; overflow tells that the unchecked
\* multiplications and additions left the u64 range, where a build with
\* overflow checks panics and a build without them keeps the wrapped value.
NoDuration == [ok |-> FALSE, secs |-> BigZero, overflow |-> FALSE]
SomeDuration(x) == [ok |-> TRUE, secs |-> WrapU64(x), overflow |-> ~FitsU64(x)]

ParseDuration(input) ==
    LET parts == Split(Trim(input))
        n == Len(parts)
        vals == [i \in 1..n |-> ParseU64(parts[i])]
    IN  IF n \notin {1, 2, 3} \/ (\E i \in 1..n : vals[i] = None)
        THEN NoDuration
        ELSE IF n = 1 THEN SomeDuration(Unwrap(vals[1]))
        ELSE IF n = 2
        THEN SomeDuration(BigAdd(BigMulAdd(Unwrap(vals[1]), 60, 0),
                                 Unwrap(vals[2])))
        ELSE SomeDuration(BigAdd(BigAdd(BigMulAdd(Unwrap(vals[1]), 3600, 0),
                                        BigMulAdd(Unwrap(vals[2]), 60, 0)),
                                 Unwrap(vals[3])))

\* ----------------------------------------------------------- CountdownTask
\* CountdownTask::new, Local::now() read at t_created and then
\* Instant::now() at t_start
NewTask(id, name, input, duration, t_created, t_start) ==
    [id |-> id, name |-> name, input |-> input, duration |-> duration,
     created_at |-> t_created, start |-> Some(t_start), paused |-> FALSE,
     pause_start |-> None, elapsed_before_pause |-> 0, finished_at |-> None]

\* elapsed() with the paused test left out
ElapsedIgnoringPause(task, t) ==
    IF IsSome(task.start)
    THEN task.elapsed_before_pause + (t - Unwrap(task.start))
    ELSE 0

\* CountdownTask::elapsed, with the clock read at instant t
Elapsed(task, t) ==
    IF IsSome(task.start)
    THEN IF task.paused
         THEN task.elapsed_before_pause
         ELSE task.elapsed_before_pause + (t - Unwrap(task.start))
    ELSE 0

\* CountdownTask::remaining
Remaining(task, t) ==
    IF BigLeqInt(task.duration, Elapsed(task, t))
    THEN BigZero
    ELSE BigSub(task.duration, FromInt(Elapsed(task, t)))

\* is_finished() with > for >=
IsFinishedStrict(task, t) ==
    FitsInt(task.duration) /\ ToInt(task.duration) < Elapsed(task, t)

\* CountdownTask::is_finished
IsFinished(task, t) == BigLeqInt(task.duration, Elapsed(task, t))

\* ------------------------------------------------------------ persistence
\* What serde writes for a CountdownTask: the fields not marked serde(skip)
Serialize(task) ==
    [id |-> task.id, name |-> task.name, input |-> task.input,
     duration |-> task.duration, created_at |-> task.created_at,
     paused |-> task.paused,
     elapsed_before_pause |-> task.elapsed_before_pause]

\* What serde reads back: the skipped fields take their default, None
Deserialize(rec) ==
    [id |-> rec.id, name |-> rec.name, input |-> rec.input,
     duration |-> rec.duration, created_at |-> rec.created_at,
     start |-> None, paused |-> rec.paused, pause_start |-> None,
     elapsed_before_pause |-> rec.elapsed_before_pause,
     finished_at |-> None]

\* Color32 values as RGBA arrays; every colour the program makes is opaque
DefaultColor == <<220, 220, 220, 255>>
PickedColor == <<255, 0, 0, 255>>

\* The PersistentData that ClockApp::save_data writes to the data file
SavedData(hist, color) ==
    Some([history |-> [i \in 1..Len(hist) |-> Serialize(hist[i])],
          text_color |-> color])

\* max over a non-empty set of ids
MaxOf(S) == CHOOSE m \in S : \A x \in S : x <= m

Ids(seq) == [i \in 1..Len(seq) |-> seq[i].id]
IdSet(seq) == {seq[i].id : i \in 1..Len(seq)}

\* Vec::retain(|t| !ids.contains(&t.id))
RetainNotIn(seq, ids) == SelectSeq(seq, LAMBDA t : t.id \notin ids)

\* ------------------------------------------------------------------ inputs
\* Texts the user types into the duration field
T_1 == <<"1">>
T_0_02 == <<"0", ":", "0", "2">>
T_0 == <<"0">>
T_x == <<"x">>
\* 307445734561825861 minutes: times 60 this is 2^64 + 44
T_wrap == <<"3", "0", "7", "4", "4", "5", "7", "3", "4", "5", "6", "1", "8",
            "2", "5", "8", "6", "1", ":", "0">>
\* 2^64 seconds
T_big == <<"1", "8", "4", "4", "6", "7", "4", "4", "0", "7", "3", "7", "0",
           "9", "5", "5", "1", "6", "1", "6">>
\* 2^64 - 1 seconds
T_max == <<"1", "8", "4", "4", "6", "7", "4", "4", "0", "7", "3", "7", "0",
           "9", "5", "5", "1", "6", "1", "5">>
T_h_m_s == <<"1", ":", "0", "2", ":", "0", "3">>
T_4parts == <<"1", ":", "2", ":", "3", ":", "4">>
T_padded == <<" ", "1", ":", "3", "0", " ">>
T_inner_space == <<"1", ":", " ", "3", "0">>

\* the texts of the timer runs
TimerTexts == {T_0_02}

\* the texts of the input runs: every text of at most MaxTextLen characters
\* of TextAlphabet, and the longer ones above
MaxTextLen == 3
TextAlphabet == {"0", "7", ":", "+", "-", " ", "x"}
TextsUpTo(n) ==
    UNION {[1..k -> TextAlphabet] : k \in 0..n}
InputTexts ==
    TextsUpTo(MaxTextLen) \cup
    {T_1, T_0_02, T_wrap, T_big, T_max, T_h_m_s, T_4parts, T_padded,
     T_inner_space}
\* what the user types over a rejected text
RetypedTexts == {T_0, T_x}

\* Texts the user types into the name field
NameTexts == {<<" ", "a">>, <<" ">>}

\* The label format!("任务#{}", id) gives a task created with a blank name
DefaultName(id) == <<"任务#", id>>

NoCmd == [kind |-> "none", id |-> 0, text |-> <<>>]
Click(kind, id) == [kind |-> kind, id |-> id, text |-> <<>>]
Typed(kind, text) == [kind |-> kind, id |-> 0, text |-> text]

VARIABLES
    tasks,               \* ClockApp.tasks
    next_task_id,        \* ClockApp.next_task_id
    new_task_input,      \* ClockApp.new_task_input
    new_task_name,       \* ClockApp.new_task_name
    history,             \* ClockApp.history
    show_finished_popup, \* ClockApp.show_finished_popup
    text_color,          \* ClockApp.text_color
    file,                \* contents of countdown_data.json, None when absent
    now,                 \* the clock that Instant::now and Local::now read
    notified,            \* bag of the ids this process raised the alarm for
    max_assigned,        \* largest id given to a task in any run, -1 if none
    created              \* how many tasks were created, over all runs

vars == <<tasks, next_task_id, new_task_input, new_task_name, history,
          show_finished_popup, text_color, file, now, notified,
          max_assigned, created>>

\* ------------------------------------------------------------------ launch
\* load_data reading the entries of the file last one first
LoadedHistoryLastFirst(f) ==
    IF IsSome(f)
    THEN [i \in 1..Len(Unwrap(f).history) |->
            Deserialize(Unwrap(f).history[Len(Unwrap(f).history) + 1 - i])]
    ELSE <<>>

\* ClockApp::load_data applied to ClockApp::default()
LoadedHistory(f) ==
    IF IsSome(f)
    THEN [i \in 1..Len(Unwrap(f).history) |-> Deserialize(Unwrap(f).history[i])]
    ELSE <<>>

LoadedColor(f) == IF IsSome(f) THEN Unwrap(f).text_color ELSE DefaultColor

\* load_data leaving next_task_id as ClockApp::default() set it
LoadedNextIdOfDefault(f) == 0

LoadedNextId(f) ==
    IF LoadedHistory(f) # <<>> THEN MaxOf(IdSet(LoadedHistory(f))) + 1 ELSE 0

\* main: ClockApp::default() followed by load_data
Launch(f) ==
    /\ tasks' = <<>>
    /\ next_task_id' = LoadedNextId(f)
    /\ new_task_input' = <<>>
    /\ new_task_name' = <<>>
    /\ history' = LoadedHistory(f)
    /\ show_finished_popup' = None
    /\ text_color' = LoadedColor(f)
    /\ notified' = EmptyBag

Init ==
    /\ tasks = <<>>
    /\ next_task_id = 0
    /\ new_task_input = <<>>
    /\ new_task_name = <<>>
    /\ history = <<>>
    /\ show_finished_popup = None
    /\ text_color = DefaultColor
    /\ file = None
    /\ now = 0
    /\ notified = EmptyBag
    /\ max_assigned = -1
    /\ created = 0

\* ------------------------------------------------------ ClockApp::update
\* The places of one frame where the code reads the clock for a value
\* that reaches the state are numbered in program order: the Local::now()
\* and the Instant::now() of CountdownTask::new in a frame that adds a
\* task, and then four places for each task of the loop, the is_finished()
\* of the finalization check, the Local::now() stored in finished_at, the
\* is_finished() that chooses the buttons of the row, and the
\* Instant::now() or pause_start.elapsed() of the handler of 暂停 or 继续.
\* The frame reads the clock at the places it executes.  A frame is short
\* against a tick: the clock ticks at most once during it, after the first
\* p places, so that the read at place k sees the clock at ReadAt(k, p).
ReadAt(k, p) == IF k <= p THEN now ELSE now + 1

\* The 添加 button without the dur.as_secs() > 0 test
AcceptedDurationOrZero(input) ==
    LET d == ParseDuration(input)
    IN  IF d.ok THEN Some(d.secs) ELSE None

\* The 添加 button: the accepted duration, or None
AcceptedDuration(input) ==
    LET d == ParseDuration(input)
    IN  IF d.ok /\ d.secs # BigZero
        THEN Some(d.secs)
        ELSE None

AddedName(id) ==
    IF Trim(new_task_name) = <<>> THEN DefaultName(id) ELSE Trim(new_task_name)

\* The finalization check without the finished_at.is_none() test
NeedsFinalizeAgain(task, t) == IsFinished(task, t)

\* The finalization check with the finished_at test inverted
NeedsFinalizeInverted(task, t) == IsFinished(task, t) /\ task.finished_at # None

\* The finalization check at the head of the loop body, clock read at t
NeedsFinalize(task, t) == IsFinished(task, t) /\ task.finished_at = None

\* The task after the finalization check: when the check succeeded,
\* finished_at takes Local::now(), read at t_stamp
Checked(task, finalize, t_stamp) ==
    IF finalize
    THEN [task EXCEPT !.finished_at = Some(t_stamp)]
    ELSE task

\* The button row drawing 暂停 and 继续 for a finished task too
ButtonsOfFinishedToo(task, cmd, finished, t_handler) ==
    IF cmd.id # task.id THEN task
    ELSE IF task.paused
    THEN IF cmd.kind = "resume" /\ IsSome(task.pause_start)
         THEN [task EXCEPT
                 !.elapsed_before_pause = @ + (t_handler - Unwrap(task.pause_start)),
                 !.paused = FALSE,
                 !.pause_start = None]
         ELSE task
    ELSE IF cmd.kind = "pause"
    THEN [task EXCEPT !.paused = TRUE, !.pause_start = Some(t_handler)]
    ELSE task

\* The button row with a 暂停 handler that does not set pause_start
ButtonsPauseUnmarked(task, cmd, finished, t_handler) ==
    IF cmd.id # task.id \/ finished THEN task
    ELSE IF task.paused
    THEN IF cmd.kind = "resume" /\ IsSome(task.pause_start)
         THEN [task EXCEPT
                 !.elapsed_before_pause = @ + (t_handler - Unwrap(task.pause_start)),
                 !.paused = FALSE,
                 !.pause_start = None]
         ELSE task
    ELSE IF cmd.kind = "pause"
    THEN [task EXCEPT !.paused = TRUE]
    ELSE task

\* The button row of one task: the task it leaves.  finished is what the
\* is_finished() of the row returned, and the handler of the clicked button
\* reads the clock again, at t_handler
Buttons(task, cmd, finished, t_handler) ==
    IF cmd.id # task.id \/ finished THEN task
    ELSE IF task.paused
    THEN IF cmd.kind = "resume" /\ IsSome(task.pause_start)
         THEN [task EXCEPT
                 !.elapsed_before_pause = @ + (t_handler - Unwrap(task.pause_start)),
                 !.paused = FALSE,
                 !.pause_start = None]
         ELSE task
    ELSE IF cmd.kind = "pause"
    THEN [task EXCEPT !.paused = TRUE, !.pause_start = Some(t_handler)]
    ELSE task

\* The button row with a 停止 button that pushes nothing to remove_ids
RemovesOnDeleteOnly(task, cmd, finished) ==
    /\ cmd.id = task.id
    /\ finished
    /\ cmd.kind = "delete"

\* The button row of one task: whether its id is pushed to remove_ids
Removes(task, cmd, finished) ==
    /\ cmd.id = task.id
    /\ IF finished THEN cmd.kind = "delete" ELSE cmd.kind = "stop"

\* Whether the row of the task runs a handler that reads the clock: 继续 of
\* a paused task that has a pause_start, or 暂停 of a running one
HandlerReads(task, cmd, finished) ==
    /\ cmd.id = task.id
    /\ ~finished
    /\ IF task.paused
       THEN cmd.kind = "resume" /\ IsSome(task.pause_start)
       ELSE cmd.kind = "pause"

\* Body(value), with the value computed once and then named
Bind(value, Body(_)) == CHOOSE r \in {Body(x) : x \in {value}} : TRUE

\* One pass of the loop body over a task, whose four places come after the
\* first k places of the frame: the task as the pass leaves it, the clone
\* pushed to just_finished, the id pushed to remove_ids, and the places
\* where the pass has read the clock.  finalize is the outcome of the
\* finalization check, checked the task after it and finished what the
\* is_finished() of the row returns.
LoopStep(task, cmd, p, k) ==
    Bind(NeedsFinalize(task, ReadAt(k + 1, p)), LAMBDA finalize :
    Bind(Checked(task, finalize, ReadAt(k + 2, p)), LAMBDA checked :
    Bind(IsFinished(checked, ReadAt(k + 3, p)), LAMBDA finished :
        [task |-> Buttons(checked, cmd, finished, ReadAt(k + 4, p)),
         just_finished |-> IF finalize THEN <<checked>> ELSE <<>>,
         remove_ids |-> IF Removes(checked, cmd, finished)
                        THEN {checked.id} ELSE {},
         reads |-> {k + 1, k + 3}
                     \cup (IF finalize THEN {k + 2} ELSE {})
                     \cup (IF HandlerReads(checked, cmd, finished)
                           THEN {k + 4} ELSE {})])))

\* The passes of the loop over the active tasks, from the i-th task on,
\* whose places come after the first k places of the frame
RECURSIVE TaskLoop(_, _, _, _, _)
TaskLoop(ts, cmd, p, i, k) ==
    IF i > Len(ts) THEN <<>>
    ELSE <<LoopStep(ts[i], cmd, p, k)>> \o TaskLoop(ts, cmd, p, i + 1, k + 4)

\* The clones pushed to just_finished by the passes, in order
RECURSIVE JustFinished(_)
JustFinished(steps) ==
    IF steps = <<>> THEN <<>>
    ELSE Head(steps).just_finished \o JustFinished(Tail(steps))

\* What the loop yields: the tasks as it leaves them, just_finished,
\* remove_ids, and the places where the clock was read
LoopResult(steps) ==
    [handled |-> [i \in DOMAIN steps |-> steps[i].task],
     just_finished |-> JustFinished(steps),
     remove_ids |-> UNION {steps[i].remove_ids : i \in DOMAIN steps},
     reads |-> UNION {steps[i].reads : i \in DOMAIN steps}]

\* The alarm and notification calls of one frame, as a bag of task ids
RECURSIVE Notifications(_)
Notifications(just_finished) ==
    IF just_finished = <<>> THEN EmptyBag
    ELSE SetToBag({Head(just_finished).id})
           (+) Notifications(Tail(just_finished))

\* What follows the loop, with a history panel that does not call save_data
AfterLoopDeleteUnsaved(cmd, loop, just_finished, history2, color1, file1) ==
    LET file2 == IF just_finished # <<>> THEN SavedData(history2, color1) ELSE file1
        popup2 == IF just_finished # <<>>
                  THEN Some(just_finished[Len(just_finished)].id)
                  ELSE show_finished_popup
        hist_hit == cmd.kind = "hist_delete" /\ cmd.id \in IdSet(history2)
    IN  /\ tasks' = RetainNotIn(loop.handled, loop.remove_ids)
        /\ history' = IF hist_hit THEN RetainNotIn(history2, {cmd.id}) ELSE history2
        /\ show_finished_popup' =
             IF cmd.kind = "close" /\ IsSome(popup2) THEN None ELSE popup2
        /\ text_color' = color1
        /\ file' = file2
        /\ notified' = notified (+) Notifications(just_finished)

\* What follows the loop: tasks.retain, the finalization side effects with
\* history2 the history after the pushes, the history panel and the popup
AfterLoop(cmd, loop, just_finished, history2, color1, file1) ==
    LET file2 == IF just_finished # <<>> THEN SavedData(history2, color1) ELSE file1
        popup2 == IF just_finished # <<>>
                  THEN Some(just_finished[Len(just_finished)].id)
                  ELSE show_finished_popup
        \* the history panel
        hist_hit == cmd.kind = "hist_delete" /\ cmd.id \in IdSet(history2)
    IN  /\ tasks' = RetainNotIn(loop.handled, loop.remove_ids)
        /\ history' = IF hist_hit THEN RetainNotIn(history2, {cmd.id}) ELSE history2
        /\ show_finished_popup' =
             IF cmd.kind = "close" /\ IsSome(popup2) THEN None ELSE popup2
        /\ text_color' = color1
        /\ file' = IF hist_hit THEN SavedData(history', color1) ELSE file2
        /\ notified' = notified (+) Notifications(just_finished)

\* The end of a frame whose loop yields loop: the tick after the first p
\* places comes before a read of the clock, one of CountdownTask::new at
\* the first k places or one of the loop
FrameEnd(cmd, loop, color1, file1, p, k, max_reads) ==
    /\ p < max_reads => (p < k \/ p + 1 \in loop.reads)
    /\ AfterLoop(cmd, loop, loop.just_finished, history \o loop.just_finished,
                 color1, file1)

\* The rest of the frame, once the text fields and the 添加 button are done
\* and the first k places are passed
FrameBody(cmd, tasks1, color1, file1, p, k, max_reads) ==
    \E loop \in {LoopResult(TaskLoop(tasks1, cmd, p, 1, k))} :
        FrameEnd(cmd, loop, color1, file1, p, k, max_reads)

Frame(cmd) ==
    LET \* the 文字颜色 picker
        color1 == IF cmd.kind = "color" THEN PickedColor ELSE text_color
        file1 == IF cmd.kind = "color" /\ color1 # text_color
                 THEN SavedData(history, color1) ELSE file
        \* the two text fields
        name1 == IF cmd.kind = "type_name" THEN cmd.text ELSE new_task_name
        input1 == IF cmd.kind = "type_input" THEN cmd.text ELSE new_task_input
        \* the 添加 button
        dur == IF cmd.kind = "add" THEN AcceptedDuration(input1) ELSE None
        added == IsSome(dur)
        \* the places of the frame: two of CountdownTask::new, four for
        \* each task of the loop; after the last one the frame is over
        new_reads == IF added THEN 2 ELSE 0
        max_reads == new_reads + 4 * (Len(tasks) + (IF added THEN 1 ELSE 0))
    IN  /\ next_task_id' = IF added THEN next_task_id + 1 ELSE next_task_id
        /\ new_task_input' = IF added THEN <<>> ELSE input1
        /\ new_task_name' = IF added THEN <<>> ELSE name1
        /\ max_assigned' = IF added /\ next_task_id > max_assigned
                           THEN next_task_id ELSE max_assigned
        /\ created' = IF added THEN created + 1 ELSE created
        /\ \E p \in 0..max_reads :
             /\ p < max_reads => now < MaxTime
             /\ now' = IF p < max_reads THEN now + 1 ELSE now
             /\ FrameBody(cmd,
                          IF added
                          THEN Append(tasks,
                                      NewTask(next_task_id,
                                              AddedName(next_task_id), input1,
                                              Unwrap(dur), ReadAt(1, p),
                                              ReadAt(2, p)))
                          ELSE tasks,
                          color1, file1, p, new_reads, max_reads)

\* A frame with no input event
FrameIdle == Frame(NoCmd)

\* A frame in which the user edits the duration field
TypeInput(texts) == \E s \in texts : Frame(Typed("type_input", s))

\* A frame in which the user edits the name field
TypeName == \E s \in NameTexts : Frame(Typed("type_name", s))

\* The model creates a task only while fewer than MaxTasks were created
AddInBounds == created < MaxTasks \/ AcceptedDuration(new_task_input) = None

\* A frame in which 添加 is clicked and parse_duration does not overflow
ClickAdd ==
    /\ AddInBounds
    /\ ~ParseDuration(new_task_input).overflow
    /\ Frame(Click("add", 0))

\* The process ends and is launched again: main
Restart ==
    /\ Launch(file)
    /\ UNCHANGED <<file, now, max_assigned, created>>

\* A frame in which 添加 is clicked and the unchecked arithmetic of
\* parse_duration overflows: a build without overflow checks goes on with
\* the wrapped value, a build with them panics and the process ends
ClickAddOverflow ==
    /\ AddInBounds
    /\ ParseDuration(new_task_input).overflow
    /\ \/ Frame(Click("add", 0))
       \/ Restart

\* The ids a click can be aimed at: a button drawn for a task or an entry
ClickTargets == IdSet(tasks) \cup IdSet(history)

ClickPause == \E id \in ClickTargets : Frame(Click("pause", id))
ClickResume == \E id \in ClickTargets : Frame(Click("resume", id))
ClickStop == \E id \in ClickTargets : Frame(Click("stop", id))
ClickDelete == \E id \in ClickTargets : Frame(Click("delete", id))
ClickHistoryDelete == \E id \in ClickTargets : Frame(Click("hist_delete", id))
ClickClose == Frame(Click("close", 0))
PickColor == Frame(Click("color", 0))

\* Time passes between two frames
Tick ==
    /\ now < MaxTime
    /\ now' = now + 1
    /\ UNCHANGED <<tasks, next_task_id, new_task_input, new_task_name, history,
                   show_finished_popup, text_color, file, notified,
                   max_assigned, created>>

\* The timer: tasks are added, paused, resumed, stopped, finalized and
\* deleted while time passes, and the process is relaunched
Next ==
    \/ FrameIdle
    \/ TypeInput(TimerTexts)
    \/ ClickAdd
    \/ ClickPause
    \/ ClickResume
    \/ ClickStop
    \/ ClickDelete
    \/ ClickHistoryDelete
    \/ ClickClose
    \/ Tick
    \/ Restart

Spec == Init /\ [][Next]_vars

\* The timer with frames that keep being run: request_repaint_after asks for
\* the next frame 200 ms after every frame, and the clock advances
\* for as long as tasks are added, paused, resumed, stopped and deleted and
\* the process is relaunched
NextLive ==
    \/ FrameIdle
    \/ TypeInput(TimerTexts)
    \/ ClickAdd
    \/ ClickPause
    \/ ClickResume
    \/ ClickStop
    \/ ClickDelete
    \/ Tick
    \/ Restart

SpecLive == Init /\ [][NextLive]_vars /\ WF_vars(Tick) /\ WF_vars(FrameIdle)

\* The ids: up to MaxIdTasks tasks are added, stopped, finalized and deleted,
\* history entries are deleted and the process is relaunched.  Pause and
\* resume, which touch neither an id nor a list, are left out.  The tasks
\* last one second, so that several finish one after the other.
MaxIdTasks == 2
IdTexts == {T_1}

ClickAddIds ==
    /\ created < MaxIdTasks \/ AcceptedDuration(new_task_input) = None
    /\ Frame(Click("add", 0))

NextIds ==
    \/ FrameIdle
    \/ TypeInput(IdTexts)
    \/ ClickAddIds
    \/ ClickStop
    \/ ClickDelete
    \/ ClickHistoryDelete
    \/ Tick
    \/ Restart

SpecIds == Init /\ [][NextIds]_vars

\* The lists: up to MaxIdTasks one-second tasks are added, paused, resumed,
\* stopped, finalized and deleted, history entries are deleted, the popup is
\* closed and the process is relaunched, so that the active list and history
\* hold several entries at once.
NextLists ==
    \/ FrameIdle
    \/ TypeInput(IdTexts)
    \/ ClickAddIds
    \/ ClickPause
    \/ ClickResume
    \/ ClickStop
    \/ ClickDelete
    \/ ClickHistoryDelete
    \/ ClickClose
    \/ Tick
    \/ Restart

SpecLists == Init /\ [][NextLists]_vars

\* The input fields: the process starts, the user has typed a duration
\* text and a name, and clicks 添加
InitInput ==
    /\ tasks = <<>>
    /\ next_task_id = 0
    /\ new_task_input \in InputTexts
    /\ new_task_name \in NameTexts \cup {<<>>}
    /\ history = <<>>
    /\ show_finished_popup = None
    /\ text_color = DefaultColor
    /\ file = None
    /\ now = 0
    /\ notified = EmptyBag
    /\ max_assigned = -1
    /\ created = 0

NextInput ==
    \/ FrameIdle
    \/ TypeInput(RetypedTexts)
    \/ TypeName
    \/ ClickAdd
    \/ ClickAddOverflow
    \/ Tick

SpecInput == InitInput /\ [][NextInput]_vars

\* ------------------------------------------------------------------ claims
\* The pairs <<i, j>> such that tasks[i] before a step and tasks'[j] after it
\* are the same task
SameTask(i, j) == tasks[i].id = tasks'[j].id

\* The elapsed value a paused task showed at the instant it was paused
ElapsedWhenPaused(task) ==
    task.elapsed_before_pause + (Unwrap(task.pause_start) - Unwrap(task.start))

\* C1: a task paused at elapsed E and resumed after a gap G > 0 shows
\* elapsed E right after the resume.  The resume handler adds the gap it
\* measured to elapsed_before_pause, so the gap is the growth of that field
\* and the instant of the resume is pause_start plus the gap; E is taken
\* either as the live value at the pause or as the value shown while paused.
C1_ResumeKeepsElapsed ==
    [][\A i \in DOMAIN tasks : \A j \in DOMAIN tasks' :
         LET gap == tasks'[j].elapsed_before_pause - tasks[i].elapsed_before_pause
         IN  (SameTask(i, j) /\ tasks[i].paused /\ ~tasks'[j].paused /\ gap > 0)
             => Elapsed(tasks'[j], Unwrap(tasks[i].pause_start) + gap)
                  \in {ElapsedWhenPaused(tasks[i]), Elapsed(tasks[i], now)}]_vars

\* C2: pausing a running task leaves elapsed() as it was: read at the
\* instant of the pause, elapsed() after the pause equals elapsed() before.
C2_PauseFreezesElapsed ==
    [][\A i \in DOMAIN tasks : \A j \in DOMAIN tasks' :
         (SameTask(i, j) /\ ~tasks[i].paused /\ tasks'[j].paused)
         => /\ Elapsed(tasks'[j], Unwrap(tasks'[j].pause_start))
                 = Elapsed(tasks[i], Unwrap(tasks'[j].pause_start))
            /\ Remaining(tasks'[j], Unwrap(tasks'[j].pause_start))
                 = Remaining(tasks[i], Unwrap(tasks'[j].pause_start))]_vars

\* How many entries of seq carry the id
CountId(seq, id) == Cardinality({k \in DOMAIN seq : seq[k].id = id})

\* The alarm and notification calls made during a step
NewlyNotified == notified' (-) notified

\* Every active task that is finished at the present instant is finalized
AllFinalized ==
    \A i \in DOMAIN tasks :
        IsFinished(tasks[i], now) => tasks[i].finished_at # None

\* C3: finalization is exactly-once per task.  The alarm and notification
\* are raised at most once for a task; a step raises them only for a task
\* whose finished_at was not yet set; finished_at, once set, never changes;
\* history gains at most one entry per alarm raised; and a frame run with no
\* time passage, when every finished task is already finalized, raises none.
C3_ExactlyOnce ==
    /\ [](\A id \in BagToSet(notified) : CopiesIn(id, notified) = 1)
    /\ [][/\ \A id \in BagToSet(NewlyNotified) :
                /\ CopiesIn(id, NewlyNotified) = 1
                /\ \A i \in DOMAIN tasks :
                       tasks[i].id = id => tasks[i].finished_at = None
          /\ \A i \in DOMAIN tasks : \A j \in DOMAIN tasks' :
                (SameTask(i, j) /\ tasks[i].finished_at # None)
                => tasks'[j].finished_at = tasks[i].finished_at
          /\ \A id \in IdSet(history') :
                CountId(history', id)
                  <= CountId(history, id) + CopiesIn(id, NewlyNotified)
          /\ (AllFinalized /\ now' = now) => NewlyNotified = EmptyBag
         ]_vars

\* A finalized task is still in the active list after time has passed: its
\* alarm was raised once and history holds one entry of it
C3_Witness ==
    \E i \in DOMAIN tasks :
        /\ tasks[i].finished_at # None
        /\ now > Unwrap(tasks[i].finished_at)
        /\ CopiesIn(tasks[i].id, notified) = 1
        /\ CountId(history, tasks[i].id) = 1

\* A task that shows no trace of a pause: every never-paused task is one
Unpaused(task) ==
    /\ IsSome(task.start)
    /\ ~task.paused
    /\ task.pause_start = None
    /\ task.elapsed_before_pause = 0

\* C4: a never-paused task with target D, read k seconds after its creation,
\* reports remaining D - k and is not finished while k < D, and reports
\* remaining 0 and is finished once k >= D.  k is an integer of the model
\* and D any u64: k < D when D is no such integer or exceeds k, and
\* remaining = D - k when remaining + k = D.
C4_CountdownOfUnpausedTask ==
    \A i \in DOMAIN tasks :
        Unpaused(tasks[i]) =>
            LET k == now - Unwrap(tasks[i].start)
                D == tasks[i].duration
                below == ~FitsInt(D) \/ k < ToInt(D)
            IN  /\ below => /\ BigAdd(Remaining(tasks[i], now), FromInt(k)) = D
                            /\ ~IsFinished(tasks[i], now)
                /\ ~below => /\ Remaining(tasks[i], now) = BigZero
                             /\ IsFinished(tasks[i], now)

\* A never-paused task one second before its target
C4_Witness ==
    \E i \in DOMAIN tasks :
        /\ Unpaused(tasks[i])
        /\ FitsInt(tasks[i].duration)
        /\ now - Unwrap(tasks[i].start) = ToInt(tasks[i].duration) - 1
        /\ Remaining(tasks[i], now) = FromInt(1)

\* C6: next_task_id is strictly greater than every id ever given to a task,
\* in this run of the process or an earlier one.
C6_NextIdAboveAssigned == next_task_id > max_assigned

\* C8: a paused task never finishes by itself.  While paused it is not
\* finished and has no finished_at; and over any step across which it stays
\* paused its elapsed and remaining values do not change.
C8_PausedNeverFinishes ==
    /\ [](\A i \in DOMAIN tasks :
             tasks[i].paused => /\ ~IsFinished(tasks[i], now)
                                /\ tasks[i].finished_at = None)
    /\ [][\A i \in DOMAIN tasks : \A j \in DOMAIN tasks' :
             (SameTask(i, j) /\ tasks[i].paused /\ tasks'[j].paused)
             => /\ Elapsed(tasks'[j], now') = Elapsed(tasks[i], now)
                /\ Remaining(tasks'[j], now') = Remaining(tasks[i], now)
                /\ tasks'[j].finished_at = None]_vars

\* A task is still paused and unfinished although more wall-clock time than
\* its target has passed since its creation
C8_Witness ==
    \E i \in DOMAIN tasks :
        /\ tasks[i].paused
        /\ BigLeqInt(tasks[i].duration, now - Unwrap(tasks[i].start) - 1)
        /\ now > Unwrap(tasks[i].pause_start)
        /\ ~IsFinished(tasks[i], now)

\* What history gains over a step is what the step finalized: history is
\* kept as a prefix, and every entry after it is a finalized task for which
\* the alarm was raised during the step
GainsOnlyFinalized(before, after) ==
    /\ Len(after) >= Len(before)
    /\ SubSeq(after, 1, Len(before)) = before
    /\ \A k \in (Len(before) + 1)..Len(after) :
          /\ after[k].finished_at # None
          /\ CopiesIn(after[k].id, NewlyNotified) = 1

\* The duration text is malformed or parses to zero seconds
Rejected(text) ==
    ~ParseDuration(text).ok \/ ParseDuration(text).secs = BigZero

\* C5: a frame in which 添加 is clicked on a malformed or zero duration text
\* creates no task: the active list and next_task_id are unchanged, both
\* input fields keep their text, and history gains nothing from the click.
C5_RejectedAddCreatesNothing ==
    [][(Rejected(new_task_input) /\ Frame(Click("add", 0)))
       => /\ Ids(tasks') = Ids(tasks)
          /\ next_task_id' = next_task_id
          /\ new_task_input' = new_task_input
          /\ new_task_name' = new_task_name
          /\ GainsOnlyFinalized(history, history')]_vars

\* A rejected text stands in the duration field beside an active task and a
\* name typed for it
C5_Witness ==
    /\ tasks # <<>>
    /\ new_task_input = T_0
    /\ new_task_name # <<>>

\* A field is a non-negative integer: decimal digits, with an optional "+"
IsNumeral(f) ==
    LET ds == IF f # <<>> /\ Head(f) = "+" THEN Tail(f) ELSE f
    IN  ds # <<>> /\ \A k \in DOMAIN ds : IsDigit(ds[k])

\* The value of a digit string, exact when it is below 2^64; once 2^64 is
\* reached the value is kept as it is, since the total is then 2^64 or more
\* whatever digits follow
RECURSIVE DigitsValue(_, _)
DigitsValue(acc, ds) ==
    IF ds = <<>> THEN acc
    ELSE LET next == BigMulAdd(acc, 10, DigitValue(Head(ds)))
         IN  IF FitsU64(next) THEN DigitsValue(next, Tail(ds)) ELSE next

\* The value of a numeral
NumeralValue(f) ==
    DigitsValue(BigZero, IF Head(f) = "+" THEN Tail(f) ELSE f)

\* The text has shape S, M:S or H:M:S with non-negative integer fields
Shaped(text) ==
    LET fs == Split(Trim(text))
    IN  Len(fs) \in {1, 2, 3} /\ \A k \in DOMAIN fs : IsNumeral(fs[k])

\* hours * 3600 + minutes * 60 + seconds of a shaped text: exact when it is
\* below 2^64, and otherwise some value of 2^64 or more
ExactTotal(text) ==
    LET fs == Split(Trim(text))
        n == Len(fs)
        secs == NumeralValue(fs[n])
        mins == IF n >= 2 THEN NumeralValue(fs[n - 1]) ELSE BigZero
        hours == IF n = 3 THEN NumeralValue(fs[1]) ELSE BigZero
    IN  BigAdd(BigAdd(BigMulAdd(hours, 3600, 0), BigMulAdd(mins, 60, 0)), secs)

\* C7 as stated: parse_duration returns hours*3600 + minutes*60 + seconds for
\* every text of shape S, M:S or H:M:S with non-negative integer fields, and
\* None for every other text; the duration of a task is that of its text.
C7_ParseAsStated ==
    /\ IF Shaped(new_task_input)
       THEN /\ ParseDuration(new_task_input).ok
            /\ ~ParseDuration(new_task_input).overflow
            /\ ParseDuration(new_task_input).secs = ExactTotal(new_task_input)
       ELSE ~ParseDuration(new_task_input).ok
    /\ \A i \in DOMAIN tasks :
          /\ Shaped(tasks[i].input)
          /\ tasks[i].duration = ExactTotal(tasks[i].input)

\* C7 below 2^64: for the texts whose total is below 2^64 parse_duration
\* does as stated, so the departures from C7 are all overflows.
C7_ParseBelow2To64 ==
    /\ IF Shaped(new_task_input)
       THEN FitsU64(ExactTotal(new_task_input))
            => /\ ParseDuration(new_task_input).ok
               /\ ~ParseDuration(new_task_input).overflow
               /\ ParseDuration(new_task_input).secs = ExactTotal(new_task_input)
       ELSE ~ParseDuration(new_task_input).ok
    /\ \A i \in DOMAIN tasks :
          /\ Shaped(tasks[i].input)
          /\ FitsU64(ExactTotal(tasks[i].input))
             => tasks[i].duration = ExactTotal(tasks[i].input)

\* The fields of a history entry that the claim names as kept
PersistedKey(task) == <<task.id, task.name, task.duration, task.created_at>>

\* C9: a relaunch, which loads what save_data wrote, gives back a history of
\* the same length and order with the same id, label, target duration and
\* creation time in every entry, and with the start and pause markers and
\* the finished timestamp absent: start, pause_start and finished_at are
\* None and paused is false.  The two fields the claim does not name, the
\* input text and the span elapsed_before_pause, are written to the file
\* and come back as they were.
C9_RoundTrip ==
    [][Restart
       => /\ Len(history') = Len(history)
          /\ \A k \in DOMAIN history :
                /\ PersistedKey(history'[k]) = PersistedKey(history[k])
                /\ history'[k].start = None
                /\ history'[k].pause_start = None
                /\ ~history'[k].paused
                /\ history'[k].finished_at = None
                /\ history'[k].input = history[k].input
                /\ history'[k].elapsed_before_pause
                     = history[k].elapsed_before_pause]_vars

\* A history of two entries loaded from the file: the first of a task that
\* was paused and resumed and the second of a task created after the clock
\* had advanced, no field of the claim's tuple alike in the two
C9_Witness ==
    /\ Len(history) = 2
    /\ \A k \in DOMAIN history :
          /\ history[k].start = None
          /\ history[k].finished_at = None
    /\ history[1].elapsed_before_pause > 0
    /\ history[2].created_at > history[1].created_at
    /\ history[2].id > history[1].id
    /\ history[2].name # history[1].name

\* The ids of a sequence without the id
WithoutId(ids, id) == SelectSeq(ids, LAMBDA x : x # id)

\* C10: removal from the active list and deletion from history are
\* independent.  A frame with a stop or delete click on an id removes from
\* the active list the tasks with that id and no other, removes them
\* whenever the button is drawn (stop: unfinished, delete: finished), and
\* changes neither next_task_id nor history beyond what the frame finalizes.
\* A frame with a delete click on a history entry removes the entries with
\* that id and no other and changes neither the active list nor
\* next_task_id.  A click on an id that is not there leaves the state as a
\* frame without a click does.  The ids are those a button is drawn for and
\* next_task_id, which no task has.
C10_RemovalsAreIndependent ==
    [][\A id \in ClickTargets \cup {next_task_id} :
        /\ Frame(Click("stop", id))
           => /\ Ids(tasks') \in {Ids(tasks), WithoutId(Ids(tasks), id)}
              /\ (\A i \in DOMAIN tasks :
                     tasks[i].id = id => ~IsFinished(tasks[i], now'))
                 => id \notin IdSet(tasks')
              /\ next_task_id' = next_task_id
              /\ GainsOnlyFinalized(history, history')
              /\ id \notin IdSet(tasks) => Frame(NoCmd)
        /\ Frame(Click("delete", id))
           => /\ Ids(tasks') \in {Ids(tasks), WithoutId(Ids(tasks), id)}
              /\ (\A i \in DOMAIN tasks :
                     tasks[i].id = id => IsFinished(tasks[i], now))
                 => id \notin IdSet(tasks')
              /\ next_task_id' = next_task_id
              /\ GainsOnlyFinalized(history, history')
              /\ id \notin IdSet(tasks) => Frame(NoCmd)
        /\ Frame(Click("hist_delete", id))
           => /\ Ids(tasks') = Ids(tasks)
              /\ next_task_id' = next_task_id
              /\ id \notin IdSet(history')
              /\ LET kept == SelectSeq(history, LAMBDA e : e.id # id)
                 IN  GainsOnlyFinalized(kept, history')
              /\ (id \notin IdSet(history) /\ CopiesIn(id, NewlyNotified) = 0)
                 => Frame(NoCmd)
      ]_vars

\* Of two tasks one, finalized in this run of the process, has been deleted
\* from the active list: the other task is still there, and so is the
\* history entry of the deleted one
C10_Witness ==
    /\ Len(tasks) = 1
    /\ \E k \in DOMAIN history :
          /\ history[k].id \notin IdSet(tasks)
          /\ CopiesIn(history[k].id, notified) = 1

\* C11: finished is terminal.  A task whose finished_at is set is not paused,
\* is finished and has remaining zero; and over any step across which it
\* stays in the active list none of its fields changes, so it is neither
\* paused nor resumed and finished_at is neither changed nor cleared.
C11_FinishedIsTerminal ==
    /\ [](\A i \in DOMAIN tasks :
             tasks[i].finished_at # None
             => /\ ~tasks[i].paused
                /\ tasks[i].pause_start = None
                /\ IsFinished(tasks[i], now)
                /\ Remaining(tasks[i], now) = BigZero)
    /\ [][\A i \in DOMAIN tasks : \A j \in DOMAIN tasks' :
             (SameTask(i, j) /\ tasks[i].finished_at # None)
             => /\ tasks'[j] = tasks[i]
                /\ IsFinished(tasks'[j], now')
                /\ Remaining(tasks'[j], now') = BigZero]_vars

\* A finalized task that went through a pause and a resume is still in the
\* active list after time has passed since its finalization
C11_Witness ==
    \E i \in DOMAIN tasks :
        /\ tasks[i].finished_at # None
        /\ tasks[i].elapsed_before_pause > 0
        /\ now > Unwrap(tasks[i].finished_at)

\* C12: elapsed() of a task never decreases.  Over every step other than a
\* resume, elapsed() read after the step is at least elapsed() read before.
C12_ElapsedNeverDecreases ==
    [][\A i \in DOMAIN tasks : \A j \in DOMAIN tasks' :
         (SameTask(i, j) /\ ~(tasks[i].paused /\ ~tasks'[j].paused))
         => Elapsed(tasks'[j], now') >= Elapsed(tasks[i], now)]_vars

\* The target of the task with the id falls within the time the model runs
WithinModelTime(id) ==
    \A i \in DOMAIN tasks :
        tasks[i].id = id
        => BigLeqInt(tasks[i].duration, MaxTime - Unwrap(tasks[i].start))

\* The task with the id is finalized: finished_at is set and the loop that
\* raises the alarm and pushes the copy to history has run for it
IsFinalized(id) ==
    \E i \in DOMAIN tasks :
        /\ tasks[i].id = id
        /\ tasks[i].finished_at # None
        /\ CopiesIn(id, notified) = 1

\* The task with the id is paused or no longer in the active list
PausedOrGone(id) ==
    \A i \in DOMAIN tasks : tasks[i].id = id => tasks[i].paused

\* C13: when frames keep being run, a running task that is never paused and
\* never removed is eventually finalized: no task stays running and
\* unfinalized for ever, that is, again and again the task is finalized, or
\* else paused or out of the active list.
C13_RunningTaskIsFinalized ==
    \A id \in 0..(MaxTasks - 1) :
        []<>(WithinModelTime(id) => (IsFinalized(id) \/ PausedOrGone(id)))

\* A task that was never paused is finalized, its copy in history
C13_Witness ==
    \E i \in DOMAIN tasks :
        /\ IsFinalized(tasks[i].id)
        /\ tasks[i].elapsed_before_pause = 0
        /\ \E k \in DOMAIN history : history[k] = tasks[i]

\* C14: after the frame that finalizes a task, the task is no longer in the
\* active list.
C14_FinalizedLeavesActiveList ==
    [][\A id \in BagToSet(NewlyNotified) : id \notin IdSet(tasks')]_vars

\* C15: for every active task exactly one of the two holds: its start
\* marker is present, or its paused flag is true.
C15_StartXorPaused ==
    \A i \in DOMAIN tasks : IsSome(tasks[i].start) # tasks[i].paused

\* C16: the active list is in insertion order with unique ids, and history
\* holds unique ids: the ids of the active list are strictly increasing from
\* first to last, no task in it was created before one in front of it, and
\* no two entries of history have the same id.
C16_OrderedUniqueIds ==
    /\ \A i, j \in DOMAIN tasks :
          i < j => /\ tasks[i].id < tasks[j].id
                   /\ tasks[i].created_at <= tasks[j].created_at
    /\ \A i, j \in DOMAIN history :
          i # j => history[i].id # history[j].id

\* After a relaunch: history holds an entry loaded from the file and, behind
\* it, the entry of a task finalized since, which is still in the active list
C16_Witness ==
    /\ Len(history) = 2
    /\ history[1].start = None
    /\ history[2].start # None
    /\ \E i \in DOMAIN tasks : tasks[i] = history[2]

\* C17: no completed task is lost.  When the 删除 button of a finished task
\* removes it from the active list, the task has finished_at set from an
\* earlier frame or is finalized, its copy pushed to history, in this frame.
C17_NoCompletedTaskLost ==
    [][\A i \in DOMAIN tasks :
         (/\ Frame(Click("delete", tasks[i].id))
          /\ tasks[i].id \notin IdSet(tasks'))
         => \/ tasks[i].finished_at # None
            \/ CopiesIn(tasks[i].id, NewlyNotified) = 1]_vars

\* C18: an active task is paused if and only if its pause_start is present;
\* and so a frame with a click on 继续 for a paused task leaves the task
\* running.
C18_PausedIffPauseStart ==
    /\ [](\A i \in DOMAIN tasks :
             tasks[i].paused <=> IsSome(tasks[i].pause_start))
    /\ [][\A i \in DOMAIN tasks : \A j \in DOMAIN tasks' :
             (/\ tasks[i].paused
              /\ Frame(Click("resume", tasks[i].id))
              /\ SameTask(i, j))
             => /\ ~tasks'[j].paused
                /\ tasks'[j].pause_start = None]_vars

\* A task that was paused for a while and then resumed: the resume took
\* effect, and the pause left no mark behind
C18_Witness ==
    \E i \in DOMAIN tasks :
        /\ ~tasks[i].paused
        /\ tasks[i].pause_start = None
        /\ tasks[i].elapsed_before_pause > 0

\* The history that the data file holds: none when there is no file
PersistedHistory == IF IsSome(file) THEN Unwrap(file).history ELSE <<>>

\* The in-memory history as save_data would write it
HistoryToPersist == [k \in 1..Len(history) |-> Serialize(history[k])]

\* C19: at the end of every frame the persisted history equals the
\* in-memory history, and a step that changes history leaves the data file
\* holding the full new history.
C19_PersistedEqualsInMemory ==
    /\ [](PersistedHistory = HistoryToPersist)
    /\ [][history' # history
          => /\ IsSome(file')
             /\ Unwrap(file').history
                  = [k \in 1..Len(history') |-> Serialize(history'[k])]]_vars

\* A task was finalized and its history entry deleted: the data file exists
\* and holds the empty history
C19_Witness ==
    /\ IsSome(file)
    /\ history = <<>>
    /\ notified # EmptyBag

\* The last of the tasks finalized during a step, in the order of the active
\* list: the ids of the active list increase from first to last
LastFinalized == MaxOf(BagToSet(NewlyNotified))

\* C20: the popup marker is set only by finalization and cleared only by
\* 关闭.  After a step that finalizes tasks it holds the id of the last of
\* them; over any other step of the running process it is unchanged, also
\* when the task is removed, unless the step is a frame with a click on
\* 关闭, which clears it.  A relaunch starts a process with no popup.
C20_PopupMarker ==
    [][/\ NewlyNotified # EmptyBag
          => show_finished_popup' = Some(LastFinalized)
       /\ (NewlyNotified = EmptyBag /\ ~Restart)
          => \/ show_finished_popup' = show_finished_popup
             \/ /\ show_finished_popup' = None
                /\ Frame(Click("close", 0))]_vars

====
